---- MODULE Spec2Model ----
(***************************************************************************)
(* Model of src/amex_parse_pdf.py, extract_transactions_from_pdf: the      *)
(* per-file / per-page / per-line loop that reconstructs transactions from *)
(* statement text, and the DataFrame clean-up that follows it.             *)
(*                                                                         *)
(* Text is modelled as a sequence of lexemes.  A lexeme is a maximal piece *)
(* of text that every regular expression and substring test of the program *)
(* treats as a unit: a date token, an amount token, a word, one blank, one *)
(* newline.  Each lexeme of a page carries the position it had in the text *)
(* returned by page.extract_text() (field o; 0 for text the program itself *)
(* creates, such as the blanks ' '.join inserts), so that properties about *)
(* where a value came from can be stated.                                  *)
(*                                                                         *)
(* The last section models src/py_script_stocks.py: the fiscal periods of  *)
(* determine_fiscal_periods and the error handling of load_to_postgres.    *)
(***************************************************************************)
EXTENDS Integers, Sequences, FiniteSets, TLC

VARIABLES
    pc,                  \* position in extract_transactions_from_pdf
    dir,                 \* files of os.listdir(folder_path) not yet visited,
                         \* each with its kind and its number of pages
    pagesLeft,           \* pages of reader.pages not yet visited
    page,                \* text returned by page.extract_text()
    content,             \* content, after the "Important Notice" cut
    lines,               \* lines, after strip and the exclusion filter
    i,                   \* cursor of the while loop (0-based, as in the code)
    current_transaction, \* the pending transaction
    transaction_data,    \* rows appended so far
    df,                  \* the DataFrame written to the CSV
    written,             \* TRUE once df.to_csv has run
    step,                \* position in process_csv_files / load_to_postgres
    csv_files,           \* number of files of csv_files not yet visited
    processed_df,        \* rows returned by preprocess_data
    conn,                \* the local conn of load_to_postgres
    cur,                 \* the local cur of load_to_postgres
    rolled_back,         \* TRUE once conn.rollback() has run for this file
    exc,                 \* the exception in flight, after the ones it replaced
    errors,              \* what the except clause of the file loop has logged
    stock_transactions   \* number of rows committed to the table

vars == <<pc, dir, pagesLeft, page, content, lines, i, current_transaction,
          transaction_data, df, written>>

\* the variables of src/py_script_stocks.py
loaderVars == <<step, csv_files, processed_df, conn, cur, rolled_back, exc,
                errors, stock_transactions>>

-----------------------------------------------------------------------------
(* Bounds of the model *)

MaxLines == 3     \* lines of a page, in the one-page runs
MaxFiles == 2     \* files of the folder
MaxPages == 2     \* pages of one PDF
MaxRunPages == 3  \* pages of all the PDFs of the folder together
MaxCsvFiles == 2  \* CSV files of the input directory
MaxRows == 1      \* rows of one CSV file

-----------------------------------------------------------------------------
(* Lexemes *)

Lex(t, o) == [t |-> t, o |-> o]

Sp == " "
NL == "\n"

\* Python's None and the empty string fillna("") puts in its place
None == Lex("None", 0)
EmptyStr == Lex("", 0)

\* ' '.join inserts a blank that is not text of the page
JoinSp == Lex(Sp, 0)

Txt(s) == [k \in 1..Len(s) |-> s[k].t]

Tag(c) == [k \in 1..Len(c) |-> Lex(c[k], k)]

\* date_pattern = r"^\d{2}/\d{2}/\d{4}": the date tokens of the model, each with
\* its characters (a digit is itself, '/' is -1: it sorts before every digit)
DateChars(d) ==
    CASE d = "01/02/2023" -> <<0, 1, -1, 0, 2, -1, 2, 0, 2, 3>>
      [] d = "01/05/2023" -> <<0, 1, -1, 0, 5, -1, 2, 0, 2, 3>>
      [] d = "12/31/2023" -> <<1, 2, -1, 3, 1, -1, 2, 0, 2, 3>>
      [] d = "01/05/2024" -> <<0, 1, -1, 0, 5, -1, 2, 0, 2, 4>>

DateTokens == {"01/02/2023", "01/05/2023", "12/31/2023", "01/05/2024"}

IsDate(x) == x.t \in DateTokens

\* amount_pattern = r'\(?\$[\d,]+\.\d{2}\)?'
ParenAmounts == {"($5.00)"}
PlainAmounts == {"$4.50", "$1,200.00", "$10.00", "$100.00", "$1,000.00"}

IsAmount(x) == x.t \in ParenAmounts \cup PlainAmounts

\* '(' in amount
HasParen(a) == a.t \in ParenAmounts

IsSpace(x) == x.t = Sp

\* str.lower on the words of the model (re.IGNORECASE, case=False)
Lower(t) ==
    CASE t = "Beginning" -> "beginning"
      [] t = "Balance" -> "balance"
      [] t = "Member" -> "member"
      [] t = "FDIC" -> "fdic"
      [] t = "Important" -> "important"
      [] t = "Notice" -> "notice"
      [] OTHER -> t

\* exclude_patterns, lower-cased, as lexemes
exclude_patterns ==
    { <<"beginning", Sp, "balance">>,
      <<"ending", Sp, "balance">>,
      <<"important", Sp, "notice">>,
      <<"member", Sp, "fdic">>,
      <<"direct", Sp, "inquiries">>,
      <<"accounts", Sp, "offered", Sp, "by">> }

\* the literal "Important Notice" of the truncation (case-sensitive)
Marker == <<"Important", Sp, "Notice">>

HeaderWords == {"Date", "Description", "Credits", "Debits", "Balance"}

\* pattern p occurs in s at position k
OccursAt(p, s, k) ==
    /\ k + Len(p) - 1 <= Len(s)
    /\ \A j \in 1..Len(p) : s[k + j - 1] = p[j]

\* exclude_regex.search(s) / str.contains('|'.join(exclude_patterns), case=False)
exclude_regex(s) ==
    LET low == [k \in 1..Len(s) |-> Lower(s[k].t)]
    IN  \E p \in exclude_patterns : \E k \in 1..Len(s) : OccursAt(p, low, k)

\* "Important Notice" in s
HasMarker(s) == \E k \in 1..Len(s) : OccursAt(Marker, Txt(s), k)

\* start of the first occurrence of "Important Notice" in s
MarkerPos(s) ==
    CHOOSE k \in 1..Len(s) :
        /\ OccursAt(Marker, Txt(s), k)
        /\ \A j \in 1..(k - 1) : ~OccursAt(Marker, Txt(s), j)

\* s.split("Important Notice")[0]
BeforeMarker(s) == SubSeq(s, 1, MarkerPos(s) - 1)

\* s.strip()
RECURSIVE Strip(_)
Strip(s) ==
    IF s = <<>> THEN <<>>
    ELSE IF IsSpace(s[1]) THEN Strip(Tail(s))
    ELSE IF IsSpace(s[Len(s)]) THEN Strip(SubSeq(s, 1, Len(s) - 1))
    ELSE s

\* s.splitlines()
RECURSIVE SplitLines(_)
SplitLines(c) ==
    IF c = <<>> THEN <<>>
    ELSE LET ends == {k \in 1..Len(c) : c[k].t = NL}
             k == IF ends = {} THEN Len(c) + 1
                  ELSE CHOOSE e \in ends : \A f \in ends : e <= f
         IN  <<SubSeq(c, 1, k - 1)>> \o
             (IF k >= Len(c) THEN <<>> ELSE SplitLines(SubSeq(c, k + 1, Len(c))))

\* ' '.join(parts)
RECURSIVE Join(_)
Join(parts) ==
    IF parts = <<>> THEN <<>>
    ELSE IF Len(parts) = 1 THEN parts[1]
    ELSE parts[1] \o <<JoinSp>> \o Join(Tail(parts))

\* re.findall(amount_pattern, s)
FindAmounts(s) == SelectSeq(s, IsAmount)

\* re.sub(amount_pattern, '', s)
SubAmounts(s) == SelectSeq(s, LAMBDA x : ~IsAmount(x))

-----------------------------------------------------------------------------
(* The page noise filter, lines 34-41 *)

\* lines 35-36
Truncate_NoCut(c) == c

Truncate(c) == IF HasMarker(c) THEN BeforeMarker(c) ELSE c

\* line 38
StripLines(c) ==
    LET ls == SplitLines(c)
        st == [k \in 1..Len(ls) |-> Strip(ls[k])]
    IN  SelectSeq(st, LAMBDA l : l # <<>>)

\* line 41
FilterLines_KeepAll(ls) == ls

FilterLines(ls) == SelectSeq(ls, LAMBDA l : ~exclude_regex(l))

\* lines 43-49 and 75-81
NewTransaction(d) ==
    [date |-> d, description |-> <<>>, credits |-> None, debits |-> None,
     balance |-> None]

-----------------------------------------------------------------------------
(* The amount classifier, lines 103-109 and 126-132 *)

ClassifyOne_Swapped(tx, a) ==
    IF tx.balance = None THEN [tx EXCEPT !.balance = a]
    ELSE IF HasParen(a) THEN [tx EXCEPT !.credits = a]
    ELSE [tx EXCEPT !.debits = a]

ClassifyOne_KeepFirst(tx, a) ==
    IF tx.balance = None THEN [tx EXCEPT !.balance = a]
    ELSE IF HasParen(a)
         THEN (IF tx.debits = None THEN [tx EXCEPT !.debits = a] ELSE tx)
    ELSE (IF tx.credits = None THEN [tx EXCEPT !.credits = a] ELSE tx)

ClassifyOne_AlwaysBalance(tx, a) == [tx EXCEPT !.balance = a]

\* the body of the for loop
ClassifyOne(tx, a) ==
    IF tx.balance = None THEN [tx EXCEPT !.balance = a]
    ELSE IF HasParen(a) THEN [tx EXCEPT !.debits = a]
    ELSE [tx EXCEPT !.credits = a]

\* for amount in reversed(amounts)
RECURSIVE Classify(_, _)
Classify(tx, amounts) ==
    IF amounts = <<>> THEN tx
    ELSE Classify(ClassifyOne(tx, amounts[Len(amounts)]),
                  SubSeq(amounts, 1, Len(amounts) - 1))

-----------------------------------------------------------------------------
(* Emission, lines 64-72 and 140-150 *)

\* current_transaction['date'] and (description or credits or debits)
Emittable(tx) ==
    /\ tx.date # None
    /\ \/ tx.description # <<>>
       \/ tx.credits # None
       \/ tx.debits # None

\* the list appended to transaction_data
Row(tx) ==
    [Date |-> tx.date, Description |-> Strip(Join(tx.description)),
     Credits |-> tx.credits, Debits |-> tx.debits, Balance |-> tx.balance]

-----------------------------------------------------------------------------
(* The inputs *)

L_Coffee == <<"01/02/2023", Sp, "COFFEE", Sp, "SHOP">>
L_Amounts == <<"$4.50", Sp, "$1,200.00">>
L_Payroll == <<"01/05/2023", Sp, "PAYROLL", Sp, "DEPOSIT">>
L_Three == <<"$10.00", Sp, "($5.00)", Sp, "$100.00">>
L_Notice == <<"01/02/2023", Sp, "COFFEE", Sp, "Important", Sp, "Notice", Sp, "SHOP">>
L_Beginning == <<"Beginning", Sp, "Balance", Sp, "$1,000.00">>
L_Fdic == <<"Member", Sp, "FDIC", Sp, "$1,000.00">>
L_DateAmount == <<"01/02/2023", Sp, "$4.50">>
L_Wide == <<"01/02/2023", Sp, "member", Sp, Sp, "FDIC">>
L_DateMember == <<"01/02/2023", Sp, "Member">>
L_FdicOnly == <<"FDIC">>
L_Header == <<"Date", Sp, "Description", Sp, "Credits", Sp, "Debits", Sp, "Balance">>
L_DateHeader == <<"01/05/2023", Sp, "Interest", Sp, "Credits">>
L_Purchase == <<"PURCHASE">>
L_DateMid == <<"01/02/2023", Sp, "COFFEE", Sp, "$4.50", Sp, "SHOP">>
L_HeaderAmount == <<"Credits", Sp, "$4.50">>
L_NoticeSplit == <<"CAFE", Sp, "Important", Sp, "$4.50", "Notice">>

PageLines ==
    { L_Coffee, L_Amounts, L_Payroll, L_Three, L_Notice, L_Beginning, L_Fdic,
      L_DateAmount, L_Wide, L_DateMember, L_FdicOnly, L_Header, L_DateHeader,
      L_Purchase, L_DateMid, L_HeaderAmount, L_NoticeSplit }

\* '\n'.join(ls): the text of a page whose lines are ls
RECURSIVE PageOf(_)
PageOf(ls) ==
    IF ls = <<>> THEN <<>>
    ELSE IF Len(ls) = 1 THEN ls[1]
    ELSE ls[1] \o <<NL>> \o PageOf(Tail(ls))

\* page texts of the one-page runs
PageTexts ==
    { PageOf(ls) : ls \in UNION { [1..n -> PageLines] : n \in 0..MaxLines } }

L_Coffee31 == <<"12/31/2023", Sp, "COFFEE", Sp, "SHOP">>
L_Payroll24 == <<"01/05/2024", Sp, "PAYROLL", Sp, "DEPOSIT">>

\* page texts of the runs over several files
RunTexts ==
    { PageOf(<<L_Coffee31, L_Amounts>>),
      PageOf(<<L_Payroll24>>),
      PageOf(<<L_Header, L_Coffee31, L_Purchase, L_Three>>),
      PageOf(<<L_Purchase, L_Amounts, L_Payroll24>>),
      PageOf(<<>>) }

\* what os.listdir can hold: a readable PDF of n pages, a name that does not end
\* with ".pdf", a PDF that PdfReader cannot read
Pdf(n) == [kind |-> "pdf", pages |-> n]
OtherFile == [kind |-> "other", pages |-> 0]
BadPdf == [kind |-> "bad", pages |-> 0]

Files == {Pdf(n) : n \in 0..MaxPages} \cup {OtherFile, BadPdf}

RECURSIVE TotalPages(_)
TotalPages(d) == IF d = <<>> THEN 0 ELSE Head(d).pages + TotalPages(Tail(d))

Folders ==
    { d \in UNION { [1..n -> Files] : n \in 0..MaxFiles } :
        TotalPages(d) <= MaxRunPages }

-----------------------------------------------------------------------------
(* Initial state: before the for loop over os.listdir, lines 24-26 *)

InitLocals ==
    /\ pc = "files"
    /\ pagesLeft = 0
    /\ page = <<>>
    /\ content = <<>>
    /\ lines = <<>>
    /\ i = 0
    /\ current_transaction = NewTransaction(None)
    /\ transaction_data = <<>>
    /\ df = <<>>
    /\ written = FALSE

\* src/py_script_stocks.py is another program: it is not running
LoaderIdle ==
    /\ step = "idle"
    /\ csv_files = 0
    /\ processed_df = <<>>
    /\ conn = "unbound"
    /\ cur = "unbound"
    /\ rolled_back = FALSE
    /\ exc = <<>>
    /\ errors = <<>>
    /\ stock_transactions = 0

\* a folder holding one readable PDF of one page
InitPage ==
    /\ dir = <<Pdf(1)>>
    /\ InitLocals
    /\ LoaderIdle

-----------------------------------------------------------------------------
(* Actions *)

\* line 29: reader = PdfReader(file_path) succeeds
OpenPdf ==
    /\ pc = "files"
    /\ dir # <<>>
    /\ Head(dir).kind = "pdf"
    /\ pagesLeft' = Head(dir).pages
    /\ pc' = "pages"
    /\ UNCHANGED <<dir, page, content, lines, i, current_transaction,
                   transaction_data, df, written>>
    /\ UNCHANGED loaderVars

PageStart_CarryOver(tx) == tx

\* lines 43-49: every page starts with a new pending record, whatever the
\* last page left
PageStart(tx) == NewTransaction(None)

\* lines 31-51: the next page is extracted, filtered and the scan is set up
ExtractPage(texts) ==
    /\ pc = "pages"
    /\ pagesLeft > 0
    /\ \E text \in texts :
          /\ page' = Tag(text)
          /\ content' = Truncate(Tag(text))
          /\ lines' = FilterLines(StripLines(Truncate(Tag(text))))
    /\ current_transaction' = PageStart(current_transaction)
    /\ i' = 0
    /\ pagesLeft' = pagesLeft - 1
    /\ pc' = "scan"
    /\ UNCHANGED <<dir, transaction_data, df, written>>
    /\ UNCHANGED loaderVars

\* line 56: any(header in line for header in [...])
IsHeader(line) == \E k \in 1..Len(line) : line[k].t \in HeaderWords

\* line 61: re.match(fr"({date_pattern})\s*(.*)", line)
DateMatch(line) == line # <<>> /\ IsDate(line[1])

\* lines 75-89: the new transaction and the rest of the date line
DatePart(line) ==
    LET desc_part == Strip(Tail(line))
        cut == IF HasMarker(desc_part) THEN Strip(BeforeMarker(desc_part))
               ELSE desc_part
    IN  [NewTransaction(line[1]) EXCEPT
            !.description = IF cut # <<>> THEN <<cut>> ELSE <<>>]

\* line 96: the line after a date line is consumed when it holds amounts
LookaheadConsumes_Never(next_line) == FALSE

LookaheadConsumes_Always(next_line) == TRUE

LookaheadConsumes(next_line) == FindAmounts(next_line) # <<>>

\* lines 97-109: the consumed line's remainder and amounts
Lookahead(tx, next_line) ==
    LET desc_text == Strip(SubAmounts(next_line))
        withDesc == IF desc_text # <<>>
                    THEN [tx EXCEPT !.description = Append(@, desc_text)]
                    ELSE tx
    IN  Classify(withDesc, FindAmounts(next_line))

AmountPart_NoText(tx, line) == Classify(tx, FindAmounts(line))

\* lines 117-132: a continuation line that holds amounts
AmountPart(tx, line) ==
    LET desc_text == Strip(SubAmounts(line))
        cut == IF HasMarker(desc_text) THEN Strip(BeforeMarker(desc_text))
               ELSE desc_text
        withDesc == IF cut # <<>>
                    THEN [tx EXCEPT !.description = Append(@, cut)]
                    ELSE tx
    IN  Classify(withDesc, FindAmounts(line))

\* lines 64-72: the pending transaction is appended at a date line
EmitAtDate(td, tx) == IF Emittable(tx) THEN Append(td, Row(tx)) ELSE td

EmitAtEnd_Never(td, tx) == td

\* lines 140-150: the pending transaction is appended at the end of the page
EmitAtEnd(td, tx) ==
    IF Emittable(tx) /\ ~exclude_regex(Strip(Join(tx.description)))
    THEN Append(td, Row(tx))
    ELSE td

Scanning == pc = "scan" /\ i < Len(lines)

\* the line under the cursor: lines[i].strip()
Line == Strip(lines[i + 1])

\* lines 55-58
SkipHeader ==
    /\ Scanning
    /\ IsHeader(Line)
    /\ i' = i + 1
    /\ UNCHANGED <<pc, dir, pagesLeft, page, content, lines,
                   current_transaction, transaction_data, df, written>>
    /\ UNCHANGED loaderVars

\* lines 60-113
DateLine ==
    /\ Scanning
    /\ ~IsHeader(Line)
    /\ DateMatch(Line)
    /\ transaction_data' = EmitAtDate(transaction_data, current_transaction)
    /\ IF i + 1 < Len(lines) /\ LookaheadConsumes(Strip(lines[i + 2]))
       THEN /\ current_transaction' = Lookahead(DatePart(Line), Strip(lines[i + 2]))
            /\ i' = i + 2
       ELSE /\ current_transaction' = DatePart(Line)
            /\ i' = i + 1
    /\ UNCHANGED <<pc, dir, pagesLeft, page, content, lines, df, written>>
    /\ UNCHANGED loaderVars

\* lines 115-132 and 137
AmountLine ==
    /\ Scanning
    /\ ~IsHeader(Line)
    /\ ~DateMatch(Line)
    /\ FindAmounts(Line) # <<>>
    /\ current_transaction' = AmountPart(current_transaction, Line)
    /\ i' = i + 1
    /\ UNCHANGED <<pc, dir, pagesLeft, page, content, lines, transaction_data,
                   df, written>>
    /\ UNCHANGED loaderVars

\* lines 133-137
TextLine ==
    /\ Scanning
    /\ ~IsHeader(Line)
    /\ ~DateMatch(Line)
    /\ FindAmounts(Line) = <<>>
    /\ current_transaction' =
          [current_transaction EXCEPT !.description = Append(@, Line)]
    /\ i' = i + 1
    /\ UNCHANGED <<pc, dir, pagesLeft, page, content, lines, transaction_data,
                   df, written>>
    /\ UNCHANGED loaderVars

\* lines 52 and 139-150: the while loop ends, the last transaction is appended
EndPage ==
    /\ pc = "scan"
    /\ i >= Len(lines)
    /\ transaction_data' = EmitAtEnd(transaction_data, current_transaction)
    /\ pc' = "pages"
    /\ UNCHANGED <<dir, pagesLeft, page, content, lines, i, current_transaction,
                   df, written>>
    /\ UNCHANGED loaderVars

\* line 31: reader.pages is exhausted, the for loop over files goes on
EndFile ==
    /\ pc = "pages"
    /\ pagesLeft = 0
    /\ dir' = Tail(dir)
    /\ pc' = "files"
    /\ UNCHANGED <<pagesLeft, page, content, lines, i, current_transaction,
                   transaction_data, df, written>>
    /\ UNCHANGED loaderVars

\* line 27: a name that does not end with ".pdf" is passed over
SkipFile ==
    /\ pc = "files"
    /\ dir # <<>>
    /\ Head(dir).kind = "other"
    /\ dir' = Tail(dir)
    /\ UNCHANGED <<pc, pagesLeft, page, content, lines, i, current_transaction,
                   transaction_data, df, written>>
    /\ UNCHANGED loaderVars

\* line 29: PdfReader(file_path) raises; nothing catches it, the function ends
OpenFails ==
    /\ pc = "files"
    /\ dir # <<>>
    /\ Head(dir).kind = "bad"
    /\ pc' = "aborted"
    /\ UNCHANGED <<dir, pagesLeft, page, content, lines, i, current_transaction,
                   transaction_data, df, written>>
    /\ UNCHANGED loaderVars

-----------------------------------------------------------------------------
(* The DataFrame clean-up, lines 152-174 *)

\* line 156: rows whose description matches an exclusion pattern are dropped
RowFilter(td) == SelectSeq(td, LAMBDA r : ~exclude_regex(r.Description))

\* line 159: ' '.join(x.split())
RECURSIVE Words(_)
Words(s) ==
    LET t == Strip(s)
    IN  IF t = <<>> THEN <<>>
        ELSE LET gaps == {k \in 1..Len(t) : IsSpace(t[k])}
                 k == IF gaps = {} THEN Len(t) + 1
                      ELSE CHOOSE e \in gaps : \A f \in gaps : e <= f
             IN  <<SubSeq(t, 1, k - 1)>> \o Words(SubSeq(t, k, Len(t)))

Collapse(s) == Join(Words(s))

\* line 162: re.sub(amount_pattern, '', x).strip()
CleanDescription(s) == Strip(SubAmounts(Collapse(s)))

\* fillna("")
FillNa(x) == IF x = None THEN EmptyStr ELSE x

\* lines 159-167 on one row
CleanRow(r) ==
    [Date |-> r.Date, Description |-> CleanDescription(r.Description),
     Credits |-> FillNa(r.Credits), Debits |-> FillNa(r.Debits),
     Balance |-> FillNa(r.Balance)]

CleanRows(td) == [k \in 1..Len(td) |-> CleanRow(td[k])]

\* comparison of two str values: a is lexicographically <= b
RECURSIVE StrLeq(_, _)
StrLeq(a, b) ==
    IF a = <<>> THEN TRUE
    ELSE IF b = <<>> THEN FALSE
    ELSE IF a[1] # b[1] THEN a[1] < b[1]
    ELSE StrLeq(Tail(a), Tail(b))

\* the key sort_values("Date") compares: the raw date string
SortKey_Chronological(r) ==
    LET c == DateChars(r.Date.t)
    IN  SubSeq(c, 7, 10) \o SubSeq(c, 1, 5)

SortKey(r) == DateChars(r.Date.t)

RemoveAt(s, k) == SubSeq(s, 1, k - 1) \o SubSeq(s, k + 1, Len(s))

\* line 170: df.sort_values("Date").  The default algorithm is not stable, so
\* rows with equal dates may come out in any order.
RECURSIVE SortValues(_)
SortValues(s) ==
    IF s = <<>> THEN { <<>> }
    ELSE LET least == {k \in 1..Len(s) :
                          \A j \in 1..Len(s) : StrLeq(SortKey(s[k]), SortKey(s[j]))}
             \* equal rows are interchangeable: one position for each is enough
             first == {k \in least : \A j \in least : s[j] = s[k] => k <= j}
         IN  UNION { { <<s[k]>> \o r : r \in SortValues(RemoveAt(s, k)) } :
                     k \in first }

\* lines 152-175: after the last file
Finalize ==
    /\ pc = "files"
    /\ dir = <<>>
    /\ df' \in SortValues(CleanRows(RowFilter(transaction_data)))
    /\ written' = TRUE
    /\ pc' = "done"
    /\ UNCHANGED <<dir, pagesLeft, page, content, lines, i, current_transaction,
                   transaction_data>>
    /\ UNCHANGED loaderVars

-----------------------------------------------------------------------------
(* Specifications *)

\* the lines 52-150 of one page
ScanPage ==
    \/ SkipHeader
    \/ DateLine
    \/ AmountLine
    \/ TextLine
    \/ EndPage

\* One readable PDF of one page, the page drawn from PageTexts
NextPage ==
    \/ OpenPdf
    \/ ExtractPage(PageTexts)
    \/ ScanPage
    \/ EndFile
    \/ Finalize

SpecPage == InitPage /\ [][NextPage]_<<vars, loaderVars>>

\* A folder of at most MaxFiles files, each PDF of at most MaxPages pages
Init ==
    /\ dir \in Folders
    /\ InitLocals
    /\ LoaderIdle

Next ==
    \/ SkipFile
    \/ OpenPdf
    \/ OpenFails
    \/ ExtractPage(RunTexts)
    \/ ScanPage
    \/ EndFile
    \/ Finalize

Spec == Init /\ [][Next]_<<vars, loaderVars>>

Terminated == pc \in {"done", "aborted"}

-----------------------------------------------------------------------------
(* Helpers of the properties *)

Range(s) == {s[k] : k \in 1..Len(s)}

\* the rows of the CSV, as plain text
RowTxt(r) ==
    <<r.Date.t, Txt(r.Description), r.Credits.t, r.Debits.t, r.Balance.t>>

\* every lexeme held by a pending transaction, by a row
TxLexemes(tx) ==
    {tx.date, tx.credits, tx.debits, tx.balance} \cup
    UNION {Range(part) : part \in Range(tx.description)}

RowLexemes(r) ==
    {r.Date, r.Credits, r.Debits, r.Balance} \cup Range(r.Description)

\* every lexeme the program has kept from the page
Kept ==
    TxLexemes(current_transaction) \cup
    UNION {RowLexemes(r) : r \in Range(transaction_data)} \cup
    UNION {RowLexemes(r) : r \in Range(df)}

-----------------------------------------------------------------------------
(* Properties *)

\* C1: every row of the final output has a date and has a non-empty
\* description or a credits value or a debits value.
C1_FinalRowsNotEmpty ==
    pc = "done" =>
        \A k \in 1..Len(df) :
            /\ df[k].Date # None
            /\ \/ df[k].Description # <<>>
               \/ df[k].Credits # EmptyStr
               \/ df[k].Debits # EmptyStr

\* C2: no row of the final output has a description that matches an exclusion
\* pattern.
C2_NoExcludedDescription ==
    pc = "done" => \A k \in 1..Len(df) : ~exclude_regex(df[k].Description)

\* a date-prefixed line starts at position k of the page text
DateLineStartsAt(k) ==
    /\ IsDate(page[k])
    /\ k = 1 \/ page[k - 1].t = NL

\* C3: when the page text holds the legal-notice marker, nothing the program
\* keeps (the date, a description fragment or an amount of the pending
\* transaction, of an appended row or of an output row) comes from the text at
\* or after the marker, and the lines that are segmented are exactly the lines of
\* the text before the marker, filtered as usual.
C3_NothingAfterMarker ==
    HasMarker(page) =>
        LET m == MarkerPos(page)
        IN  /\ \A x \in Kept : x.o < m
            /\ \A k \in 1..Len(lines) : \A x \in Range(lines[k]) : x.o < m
            /\ lines = FilterLines(StripLines(SubSeq(page, 1, m - 1)))

\* a page with a date-prefixed line after the marker, and a row made from the
\* text before the marker
C3_Witness ==
    /\ pc = "done"
    /\ HasMarker(page)
    /\ \E k \in (MarkerPos(page) + 1)..Len(page) : DateLineStartsAt(k)
    /\ df # <<>>

\* the lines of the page as the exclusion filter of line 41 receives them
UnfilteredLines == StripLines(content)

\* the positions, in the page text, of the lines the filter has to drop
ExcludedPositions ==
    UNION { {x.o : x \in Range(l)} : l \in {u \in Range(UnfilteredLines) : exclude_regex(u)} }

\* C4: a line that matches an exclusion pattern is dropped before segmentation:
\* it is no line the scan walks over (so it neither opens a transaction nor is
\* looked at by the lookahead), and nothing the program keeps comes from it.
\* The lines are those of the page text that is left after the cut at the marker.
C4_ExcludedLinesDropped ==
    LET dropped == ExcludedPositions
    IN  /\ \A k \in 1..Len(lines) :
              /\ ~exclude_regex(lines[k])
              /\ \A x \in Range(lines[k]) : x.o \notin dropped
        /\ \A x \in Kept : x.o \notin dropped

\* a page holding the line "Beginning Balance $1,000.00" and a line that
\* becomes a row
C4_Witness ==
    /\ pc = "done"
    /\ \E l \in Range(UnfilteredLines) : Txt(l) = L_Beginning
    /\ df # <<>>

\* the amount tokens the scan step taken from this state classifies: those of
\* the lookahead line at a date line, those of the line itself otherwise
StepAmounts ==
    IF ~Scanning \/ IsHeader(Line) THEN <<>>
    ELSE IF DateMatch(Line)
         THEN (IF i + 1 < Len(lines) THEN FindAmounts(Strip(lines[i + 2])) ELSE <<>>)
    ELSE FindAmounts(Line)

\* the slots they are classified against: empty at a date line, which opens a
\* new pending transaction first
StepSlots ==
    IF Scanning /\ ~IsHeader(Line) /\ DateMatch(Line)
    THEN NewTransaction(None)
    ELSE current_transaction

\* the leftmost token of a that satisfies Test(_), or else
Leftmost(a, Test(_), else) ==
    LET sel == SelectSeq(a, Test) IN IF sel = <<>> THEN else ELSE sel[1]

IsPlain(a) == ~HasParen(a)

C5_Step ==
    LET a == StepAmounts
        others == SubSeq(a, 1, Len(a) - 1)
    IN  (/\ a # <<>>
         /\ StepSlots.balance = None
         /\ StepSlots.credits = None
         /\ StepSlots.debits = None)
        => /\ current_transaction'.balance = a[Len(a)]
           /\ current_transaction'.debits = Leftmost(others, HasParen, None)
           /\ current_transaction'.credits = Leftmost(others, IsPlain, None)
           /\ Txt(a) = <<"$10.00", "($5.00)", "$100.00">> =>
                 /\ current_transaction'.balance.t = "$100.00"
                 /\ current_transaction'.debits.t = "($5.00)"
                 /\ current_transaction'.credits.t = "$10.00"

\* C5: when the amount tokens of a line are classified for a pending
\* transaction whose slots are all unset, the rightmost token becomes balance,
\* and of the others, taken right to left, a token with an opening parenthesis
\* is written to debits and any other to credits; ["$10.00", "($5.00)",
\* "$100.00"] gives balance "$100.00", debits "($5.00)", credits "$10.00".
C5_ReverseClassification == [][C5_Step]_vars

\* the three tokens of the example were classified for a fresh transaction and
\* the row was written
C5_Witness ==
    /\ pc = "done"
    /\ \E k \in 1..Len(df) :
          /\ df[k].Balance.t = "$100.00"
          /\ df[k].Debits.t = "($5.00)"
          /\ df[k].Credits.t = "$10.00"

C6_Step ==
    LET a == StepAmounts
    IN  /\ (a # <<>> /\ StepSlots.balance # None)
           => /\ current_transaction'.balance = StepSlots.balance
              /\ current_transaction'.debits =
                    Leftmost(a, HasParen, StepSlots.debits)
              /\ current_transaction'.credits =
                    Leftmost(a, IsPlain, StepSlots.credits)
        /\ transaction_data' # transaction_data
           => LET r == transaction_data'[Len(transaction_data')]
              IN  /\ transaction_data' = Append(transaction_data, r)
                  /\ r.Credits = current_transaction.credits
                  /\ r.Debits = current_transaction.debits
                  /\ r.Balance = current_transaction.balance

\* C6: when balance is already set, every amount token of a later line is
\* written to credits or debits and none to balance; a value written by the
\* later line replaces the one an earlier line wrote, and the appended row
\* holds the values written last.
C6_LastWriteWins == [][C6_Step]_vars

\* "$4.50 $1,200.00" set credits and balance, the later line "$10.00 ($5.00)
\* $100.00" replaced credits, and the row was written
C6_Witness ==
    /\ pc = "done"
    /\ \E k \in 1..Len(df) :
          /\ df[k].Balance.t = "$1,200.00"
          /\ df[k].Credits.t = "$10.00"
          /\ df[k].Debits.t = "($5.00)"

\* the scan of the page is over
PageScanned == pc \in {"pages", "files", "done"} /\ pagesLeft = 0

\* the filtered lines hold exactly one date-prefixed line
OneDateLine == Cardinality({k \in 1..Len(lines) : DateMatch(lines[k])}) = 1

\* the pending transaction fails the exclusion check, the emptiness check
FailsExclusion(tx) == exclude_regex(Strip(Join(tx.description)))

IsEmpty(tx) == tx.description = <<>> /\ tx.credits = None /\ tx.debits = None

\* C7: a page whose filtered lines hold exactly one date-prefixed line yields
\* exactly one transaction, or none when, and only when, the pending
\* transaction fails the exclusion check or the emptiness check (no
\* description, no credits, no debits).
C7_OneDateLineOneRow ==
    (PageScanned /\ OneDateLine) =>
        /\ Len(transaction_data) <= 1
        /\ Len(transaction_data) = 0 <=>
              (FailsExclusion(current_transaction) \/ IsEmpty(current_transaction))

\* the page of the scenario
CoffeePage == PageOf(<<L_Coffee, L_Amounts, L_Payroll>>)

\* C8: the page ["01/02/2023 COFFEE SHOP", "$4.50 $1,200.00", "01/05/2023
\* PAYROLL DEPOSIT"] yields exactly the two rows ("01/02/2023", "COFFEE SHOP",
\* "$4.50", "", "$1,200.00") and ("01/05/2023", "PAYROLL DEPOSIT", "", "", ""):
\* the amount line is consumed by the lookahead, and the date line that ends
\* the page is appended at the end of the page with empty amount fields.
C8_CoffeeScenario ==
    Txt(page) = CoffeePage =>
        /\ (pc = "scan" /\ i > 0) => i >= 2
        /\ PageScanned => Len(transaction_data) = 2
        /\ pc = "done" =>
              /\ Len(df) = 2
              /\ RowTxt(df[1]) =
                    <<"01/02/2023", <<"COFFEE", Sp, "SHOP">>, "$4.50", "", "$1,200.00">>
              /\ RowTxt(df[2]) =
                    <<"01/05/2023", <<"PAYROLL", Sp, "DEPOSIT">>, "", "", "">>

C8_Witness == pc = "done" /\ Txt(page) = CoffeePage /\ Len(df) = 2

\* number of rows of s equal to r
Count(s, r) == Cardinality({k \in 1..Len(s) : s[k] = r})

\* C9: the final output is a permutation of the rows that survive the row
\* filter (cleaned), in ascending order of the raw date string compared
\* character by character; so "01/05/2024" comes before "12/31/2023".
C9_SortedByDateString ==
    pc = "done" =>
        LET kept == CleanRows(RowFilter(transaction_data))
        IN  /\ Len(df) = Len(kept)
            /\ \A r \in Range(kept) \cup Range(df) : Count(df, r) = Count(kept, r)
            /\ \A k \in 1..(Len(df) - 1) :
                  StrLeq(DateChars(df[k].Date.t), DateChars(df[k + 1].Date.t))
            /\ \A j, k \in 1..Len(df) :
                  (df[j].Date.t = "12/31/2023" /\ df[k].Date.t = "01/05/2024") => k < j

\* a row dated "12/31/2023" was appended before one dated "01/05/2024", and the
\* output holds them in the other order
C9_Witness ==
    /\ pc = "done"
    /\ \E j, k \in 1..Len(transaction_data) :
          /\ j < k
          /\ transaction_data[j].Date.t = "12/31/2023"
          /\ transaction_data[k].Date.t = "01/05/2024"
    /\ \E j, k \in 1..Len(df) :
          /\ j < k
          /\ df[j].Date.t = "01/05/2024"
          /\ df[k].Date.t = "12/31/2023"

\* C10: a file that cannot be read does not end the run: every file of the
\* folder is visited and the output is written.
C10_FailureIsolated == Terminated => (dir = <<>> /\ written)

\* s has no leading blank, no trailing blank and no two blanks in a row
Normalized(s) ==
    /\ s # <<>> => (~IsSpace(s[1]) /\ ~IsSpace(s[Len(s)]))
    /\ \A k \in 1..(Len(s) - 1) : ~(IsSpace(s[k]) /\ IsSpace(s[k + 1]))

\* C11: every description of the final output is normalized: no leading or
\* trailing whitespace and no run of two or more whitespace characters, also
\* when amount tokens were stripped from it during the clean-up.
C11_DescriptionsNormalized ==
    pc = "done" => \A k \in 1..Len(df) : Normalized(df[k].Description)

\* the lines a scanning step takes the cursor past: each date-prefixed one
\* becomes the date of the pending transaction
C12_Step ==
    Scanning =>
        \A k \in (i + 1)..i' :
            DateMatch(lines[k]) => current_transaction'.date = lines[k][1]

\* C12: every date-prefixed line of the filtered lines is a transaction
\* boundary: the step that takes the cursor past it opens a pending
\* transaction whose date is the token of that line.
C12_DateLinesOpen == [][C12_Step]_vars

\* the positions, in the page text, of the header lines among the filtered lines
HeaderPositions ==
    UNION { {x.o : x \in Range(l)} : l \in {u \in Range(lines) : IsHeader(u)} }

\* C13: a header line never changes state: nothing the program keeps (a
\* description fragment, a credits, debits or balance value, the date of a
\* transaction) comes from a header line, wherever the line is on the page.
C13_HeaderLinesInert ==
    LET header == HeaderPositions
    IN  \A x \in Kept : x.o \notin header

\* the amount slots of the pending transaction and of the appended rows
Slots ==
    {current_transaction.credits, current_transaction.debits,
     current_transaction.balance} \cup
    UNION { {r.Credits, r.Debits, r.Balance} : r \in Range(transaction_data) }

\* C14: the amount tokens of a date-prefixed line are never classified into
\* credits, debits or balance, and they are not stripped from the text of the
\* line: the transaction the line opens holds them in its description.
C14_DateLineAmountsUntouched ==
    \A k \in 1..Len(lines) :
        DateMatch(lines[k]) =>
            \A x \in Range(lines[k]) :
                IsAmount(x) =>
                    /\ x \notin Slots
                    /\ current_transaction.date = lines[k][1] =>
                          \E part \in Range(current_transaction.description) :
                              x \in Range(part)

\* the amount slots of a pending transaction
AmountSlots(tx) == <<tx.credits, tx.debits, tx.balance>>

\* how often lexeme x is held by the pending transaction tx
Occurrences(tx, x) ==
    Cardinality({k \in 1..3 : AmountSlots(tx)[k] = x}) +
    Cardinality({pk \in {<<p, k>> : p \in 1..Len(tx.description), k \in 1..8} :
                    /\ pk[2] <= Len(tx.description[pk[1]])
                    /\ tx.description[pk[1]][pk[2]] = x})

\* the lexemes of the lines k with from < k <= to
LinesLexemes(from, to) == UNION {Range(lines[k]) : k \in (from + 1)..to}

C15_Step ==
    Scanning =>
        LET dateLine == ~IsHeader(Line) /\ DateMatch(Line)
            consumed == /\ dateLine
                        /\ i + 1 < Len(lines)
                        /\ FindAmounts(lines[i + 2]) # <<>>
            new == TxLexemes(current_transaction') \ TxLexemes(current_transaction)
        IN  /\ i' = IF consumed THEN i + 2 ELSE i + 1
            /\ new \subseteq LinesLexemes(i, i') \cup {None}
            /\ \A x \in LinesLexemes(0, i') :
                  Occurrences(current_transaction', x) <= 1
            /\ consumed =>
                  LET next_line == lines[i + 2]
                      rest == Strip(SubAmounts(next_line))
                      amounts == FindAmounts(next_line)
                  IN  /\ current_transaction'.balance = amounts[Len(amounts)]
                      /\ Range(AmountSlots(current_transaction')) \subseteq
                            Range(amounts) \cup {None}
                      /\ current_transaction'.description =
                            DatePart(Line).description \o
                            (IF rest # <<>> THEN <<rest>> ELSE <<>>)

\* C15: every filtered line of a page is handled exactly once.  A step of the
\* scan handles the line under the cursor and, when that line is handled as a
\* date line and the line after it holds amount tokens, that next line too
\* (the cursor moves by two, its amounts are classified once and its remainder
\* is appended once); a next line without amount tokens stays for the next
\* step; no step takes anything from a line handled before.
C15_HandledOnce == [][C15_Step]_vars

\* the lookahead has just consumed the line after the date line
C15_Witness ==
    /\ pc = "scan"
    /\ i >= 2
    /\ DateMatch(lines[i - 1])
    /\ current_transaction.date = lines[i - 1][1]
    /\ FindAmounts(lines[i]) # <<>>
    /\ current_transaction.balance \in Range(lines[i])
    /\ i < Len(lines)

\* the index of the filtered line that starts with lexeme x
LineOf(x) == CHOOSE k \in 1..Len(lines) : lines[k][1] = x

\* what is left of a date line after its date token
DateRemainder(line) ==
    LET rest == Strip(Tail(line)) IN IF rest # <<>> THEN <<rest>> ELSE <<>>

\* what a line gives to the description: without amount tokens its full text,
\* with amount tokens its amount-stripped remainder when that is not empty
Contribution(line) ==
    LET rest == Strip(SubAmounts(line))
    IN  IF FindAmounts(line) = <<>> THEN <<line>>
        ELSE IF rest # <<>> THEN <<rest>> ELSE <<>>

\* the same, the remainder being cut at an "Important Notice" that the removal
\* of the amounts has formed
ContributionCut(line) ==
    LET rest == Strip(SubAmounts(line))
        cut == IF HasMarker(rest) THEN Strip(BeforeMarker(rest)) ELSE rest
    IN  IF FindAmounts(line) = <<>> THEN <<line>>
        ELSE IF cut # <<>> THEN <<cut>> ELSE <<>>

\* the contributions of the lines from k up to the next date-prefixed line
RECURSIVE PartsUntilDate(_)
PartsUntilDate(k) ==
    IF k > Len(lines) \/ DateMatch(lines[k]) THEN <<>>
    ELSE Contribution(lines[k]) \o PartsUntilDate(k + 1)

\* the contributions of the lines from k up to the next line that is
\* date-prefixed and not a header line, header lines giving nothing
RECURSIVE PartsUntilDateLine(_)
PartsUntilDateLine(k) ==
    IF k > Len(lines) THEN <<>>
    ELSE IF IsHeader(lines[k]) THEN PartsUntilDateLine(k + 1)
    ELSE IF DateMatch(lines[k]) THEN <<>>
    ELSE ContributionCut(lines[k]) \o PartsUntilDateLine(k + 1)

\* the contributions that follow date line d: the next line, whatever it is,
\* when it holds amount tokens, then the lines after it
PartsAfterDateLine(d) ==
    IF d < Len(lines) /\ FindAmounts(lines[d + 1]) # <<>>
    THEN Contribution(lines[d + 1]) \o PartsUntilDateLine(d + 2)
    ELSE PartsUntilDateLine(d + 1)

\* C16, as stated: the description of an appended row is the single-space
\* join, in page order, of the remainder of its date line and of the
\* contribution of every line between that date line and the next
\* date-prefixed line or the end of the page.
C16_JoinOfEveryLine ==
    \A r \in Range(transaction_data) :
        LET d == LineOf(r.Date)
        IN  r.Description =
               Strip(Join(DateRemainder(lines[d]) \o PartsUntilDate(d + 1)))

\* C16, amended: the description of an appended row is the single-space join,
\* in page order, of the remainder of its date line, of the contribution of the
\* next line when that line holds amount tokens (whatever else it holds), and
\* of the contribution of every later line that is not a header line, up to
\* the next line that is date-prefixed and not a header line, or the end of
\* the page; after the next line, a remainder is cut at an "Important Notice"
\* formed by the removal of the amounts.
C16_JoinOfContributions ==
    \A r \in Range(transaction_data) :
        LET d == LineOf(r.Date)
        IN  r.Description =
               Strip(Join(DateRemainder(lines[d]) \o PartsAfterDateLine(d)))

\* a row was appended whose description joins a date remainder, a consumed
\* line's remainder and a later line, a header line in between giving nothing
C16_Witness ==
    \E r \in Range(transaction_data) :
        LET d == LineOf(r.Date)
        IN  /\ d + 2 <= Len(lines)
            /\ DateRemainder(lines[d]) # <<>>
            /\ \E k \in (d + 1)..Len(lines) : IsHeader(lines[k])
            /\ \E k \in (d + 1)..Len(lines) :
                  /\ ~IsHeader(lines[k])
                  /\ ~DateMatch(lines[k])
                  /\ \E x \in Range(lines[k]) : x \in Range(r.Description)

\* the indices of the lines from k on whose amounts are classified before the
\* next line that is date-prefixed and not a header line
RECURSIVE ClassifiedFrom(_)
ClassifiedFrom(k) ==
    IF k > Len(lines) THEN <<>>
    ELSE IF IsHeader(lines[k]) THEN ClassifiedFrom(k + 1)
    ELSE IF DateMatch(lines[k]) THEN <<>>
    ELSE IF FindAmounts(lines[k]) # <<>> THEN <<k>> \o ClassifiedFrom(k + 1)
    ELSE ClassifiedFrom(k + 1)

\* the indices of the lines whose amounts are classified for the transaction
\* that date line d opens
ClassifiedAfter(d) ==
    IF d < Len(lines) /\ FindAmounts(lines[d + 1]) # <<>>
    THEN <<d + 1>> \o ClassifiedFrom(d + 2)
    ELSE ClassifiedFrom(d + 1)

\* the balance of an appended row is the rightmost amount token of the first
\* line classified for it
C17_Rows ==
    \A r \in Range(transaction_data) :
        LET c == ClassifiedAfter(LineOf(r.Date))
            first == FindAmounts(lines[c[1]])
        IN  r.Balance = IF c = <<>> THEN None ELSE first[Len(first)]

\* a step of the scan that keeps the pending transaction keeps a set balance
C17_Step ==
    (Scanning /\ current_transaction'.date = current_transaction.date
              /\ current_transaction.balance # None) =>
        current_transaction'.balance = current_transaction.balance

\* C17: once the balance of a pending transaction is set, no later line of
\* that transaction changes it, and the balance of an appended row is the
\* rightmost amount token of the first amount-bearing line classified for it.
C17_BalanceSetOnce == [](C17_Rows) /\ [][C17_Step]_vars

\* a later amount-bearing line of the same transaction has been classified
\* after the balance was set
C17_Witness ==
    /\ pc = "scan"
    /\ current_transaction.balance # None
    /\ current_transaction.credits # None
    /\ current_transaction.credits.o > current_transaction.balance.o
    /\ current_transaction.date # None

\* the amount slots of tx are consistent
SlotsConsistent(tx) ==
    /\ (tx.credits # None \/ tx.debits # None) => tx.balance # None
    /\ tx.debits # None => HasParen(tx.debits)
    /\ tx.credits # None => ~HasParen(tx.credits)

\* the same for an appended row
RowConsistent(r) ==
    /\ (r.Credits # None \/ r.Debits # None) => r.Balance # None
    /\ r.Debits # None => HasParen(r.Debits)
    /\ r.Credits # None => ~HasParen(r.Credits)

\* C18: in every reachable state the amount slots of the pending transaction
\* and of every appended row are consistent: when credits or debits is set,
\* balance is set; a set debits value holds an opening parenthesis; a set
\* credits value holds none.
C18_SlotsConsistent ==
    /\ SlotsConsistent(current_transaction)
    /\ \A r \in Range(transaction_data) : RowConsistent(r)

\* the three slots of the pending transaction are set
C18_Witness ==
    /\ pc = "scan"
    /\ current_transaction.credits # None
    /\ current_transaction.debits # None
    /\ current_transaction.balance # None

\* lexeme x is a lexeme of the page being scanned, or is synthetic
OnPage(x) == x.o = 0 \/ (x.o <= Len(page) /\ page[x.o] = x)

\* the lexemes of the filtered lines that precede the first date-prefixed line
PreDateLexemes ==
    UNION { Range(lines[k]) :
              k \in {j \in 1..Len(lines) :
                       \A d \in 1..j : ~DateMatch(lines[d])} }

\* the rows a step appends
NewRows ==
    SubSeq(transaction_data', Len(transaction_data) + 1, Len(transaction_data'))

C19_Step ==
    /\ (pc = "pages" /\ pc' = "scan") =>
          /\ current_transaction' = NewTransaction(None)
          /\ i' = 0
    /\ pc = "scan" =>
          /\ \A r \in Range(NewRows) : \A x \in RowLexemes(r) :
                OnPage(x) /\ x \notin PreDateLexemes
          /\ transaction_data =
                SubSeq(transaction_data', 1, Len(transaction_data))
    /\ (pc = "scan" /\ pc' = "pages") =>
          transaction_data' =
             IF /\ Emittable(current_transaction)
                /\ ~exclude_regex(Strip(Join(current_transaction.description)))
             THEN Append(transaction_data, Row(current_transaction))
             ELSE transaction_data

\* C19: every page starts with a fresh pending record and the cursor at its
\* first line, so every row appended while a page is scanned is made of
\* lexemes of that page only, and of none of the lines that precede the first
\* date-prefixed line of the page; at the end of the page a pending
\* transaction that has a date, has a description, a credits or a debits
\* value, and passes the exclusion check is appended, and nothing else is.
C19_PageScoped == [][C19_Step]_vars

\* a second page with lines before its first date line has been scanned and
\* its transaction appended after a row of an earlier page
C19_Witness ==
    /\ pc = "pages"
    /\ Len(lines) >= 2
    /\ ~DateMatch(lines[1]) /\ ~IsHeader(lines[1])
    /\ Len(transaction_data) >= 2
    /\ ~OnPage(transaction_data[1].Date)
    /\ \E k \in 2..Len(lines) :
          transaction_data[Len(transaction_data)].Date = lines[k][1]

\* a step of the scan moves the cursor forward by one line, or by two when the
\* line after a date line holds amounts and is consumed, and leaves the lines
\* as they are
C20_Step ==
    Scanning =>
        /\ i' \in {i + 1, i + 2}
        /\ i' = i + 2 =>
              /\ i + 2 <= Len(lines)
              /\ DateMatch(Line)
              /\ FindAmounts(lines[i + 2]) # <<>>
        /\ lines' = lines

\* C20: the scan of a page terminates: while a page is scanned the cursor
\* never exceeds the number of filtered lines, every step of the scan moves it
\* forward by 1, or by 2 when a lookahead line is consumed, over lines that do
\* not change, so at most Len(lines) steps are taken; and once the cursor
\* has reached the number of lines the only step left ends the page.
C20_ScanTerminates ==
    /\ [](pc = "scan" => i \in 0..Len(lines))
    /\ [][C20_Step]_vars
    /\ [][(pc = "scan" /\ i >= Len(lines)) => pc' = "pages"]_vars

\* the cursor has reached the end of a page of three lines after a lookahead
\* line was consumed
C20_Witness ==
    /\ pc = "scan"
    /\ Len(lines) = 3
    /\ i = Len(lines)
    /\ DateMatch(lines[2])
    /\ current_transaction.date = lines[2][1]
    /\ current_transaction.balance \in Range(lines[3])

-----------------------------------------------------------------------------
(***************************************************************************)
(* Model of src/py_script_stocks.py: the loop of process_csv_files over    *)
(* the CSV files, preprocess_data with determine_fiscal_periods, and       *)
(* load_to_postgres with its except and finally clauses.  Of the columns   *)
(* of a CSV file only Date is kept, of a date only its year and month: no  *)
(* other value reaches determine_fiscal_periods or the error handling.     *)
(***************************************************************************)

MonthNames ==
    <<"January", "February", "March", "April", "May", "June", "July",
      "August", "September", "October", "November", "December">>

\* lines 15-30
determine_fiscal_periods(date) ==
    [fiscal_year |-> IF date.month < 7 THEN date.year ELSE date.year + 1,
     fiscal_quarter |-> IF date.month < 7
                        THEN (date.month + 6) \div 3
                        ELSE ((date.month - 6) \div 3) + 1,
     month |-> MonthNames[date.month]]

\* pd.to_datetime(...).dt.strftime('%Y-%m-%d') and pd.to_datetime of that
\* string: the string holds the year and the month as its first two fields
Strftime(date) == <<date.year, date.month>>
ToDatetime(str) == [year |-> str[1], month |-> str[2]]

\* lines 59 and 66-69 of preprocess_data, on one row
PreprocessRow(row) ==
    LET transaction_date == Strftime(row.Date)
        fiscal_data == determine_fiscal_periods(ToDatetime(transaction_date))
    IN  [transaction_date |-> transaction_date,
         fiscal_year |-> fiscal_data.fiscal_year,
         fiscal_quarter |-> fiscal_data.fiscal_quarter,
         month |-> fiscal_data.month]

\* lines 32-78
preprocess_data(rows) == [k \in 1..Len(rows) |-> PreprocessRow(rows[k])]

\* the dates a row can hold
Years == {2023, 2024}
Dates == [year : Years, month : 1..12]

\* what pd.read_csv can return for a file with the required columns
CsvContents == UNION { [1..n -> [Date : Dates]] : n \in 0..MaxRows }

\* process_csv_files is called on a directory of at most MaxCsvFiles files
InitStocks ==
    /\ dir = <<>>
    /\ InitLocals
    /\ step = "loop"
    /\ csv_files \in 0..MaxCsvFiles
    /\ processed_df = <<>>
    /\ conn = "unbound"
    /\ cur = "unbound"
    /\ rolled_back = FALSE
    /\ exc = <<>>
    /\ errors = <<>>
    /\ stock_transactions = 0

\* lines 208-215: the next file is read and preprocessed, load_to_postgres is
\* called and its locals do not exist yet
ReadCsv ==
    /\ step = "loop"
    /\ csv_files > 0
    /\ csv_files' = csv_files - 1
    /\ \E rows \in CsvContents : processed_df' = preprocess_data(rows)
    /\ conn' = "unbound"
    /\ cur' = "unbound"
    /\ rolled_back' = FALSE
    /\ step' = "connect"
    /\ UNCHANGED <<exc, errors, stock_transactions>>
    /\ UNCHANGED vars

\* lines 211-212 and 40: pd.read_csv or preprocess_data raises
PreprocessFails ==
    /\ step = "loop"
    /\ csv_files > 0
    /\ csv_files' = csv_files - 1
    /\ exc' = <<"ValueError">>
    /\ step' = "caught"
    /\ UNCHANGED <<processed_df, conn, cur, rolled_back, errors,
                   stock_transactions>>
    /\ UNCHANGED vars

\* a call of psycopg2 raises: control goes to the except clause of line 193
Raise ==
    /\ exc' = <<"DatabaseError">>
    /\ step' = "except"
    /\ UNCHANGED <<csv_files, processed_df, conn, cur, rolled_back, errors,
                   stock_transactions>>
    /\ UNCHANGED vars

\* line 139: conn = psycopg2.connect(**db_params)
Connect ==
    /\ step = "connect"
    /\ conn' = "open"
    /\ step' = "cursor"
    /\ UNCHANGED <<csv_files, processed_df, cur, rolled_back, exc, errors,
                   stock_transactions>>
    /\ UNCHANGED vars

ConnectFails ==
    /\ step = "connect"
    /\ Raise

\* line 140: cur = conn.cursor()
Cursor ==
    /\ step = "cursor"
    /\ cur' = "open"
    /\ step' = "create"
    /\ UNCHANGED <<csv_files, processed_df, conn, rolled_back, exc, errors,
                   stock_transactions>>
    /\ UNCHANGED vars

CursorFails ==
    /\ step = "cursor"
    /\ Raise

\* lines 143-188: CREATE TEMP TABLE, execute_values, INSERT ... SELECT
Statements == <<"create", "insert_temp", "insert_main", "commit">>

Execute ==
    /\ \E k \in 1..3 :
          /\ step = Statements[k]
          /\ step' = Statements[k + 1]
    /\ UNCHANGED <<csv_files, processed_df, conn, cur, rolled_back, exc,
                   errors, stock_transactions>>
    /\ UNCHANGED vars

ExecuteFails ==
    /\ \E k \in 1..3 : step = Statements[k]
    /\ Raise

\* lines 190-191: conn.commit(), then the finally clause
Commit ==
    /\ step = "commit"
    /\ stock_transactions' = stock_transactions + Len(processed_df)
    /\ step' = "finally"
    /\ UNCHANGED <<csv_files, processed_df, conn, cur, rolled_back, exc,
                   errors>>
    /\ UNCHANGED vars

CommitFails ==
    /\ step = "commit"
    /\ Raise

\* lines 193-196: logger.error, conn.rollback(), raise.  When connect has
\* raised, conn is not bound and conn.rollback() raises UnboundLocalError,
\* which takes the place of the exception being handled.
Except ==
    /\ step = "except"
    /\ IF conn = "unbound"
       THEN /\ exc' = Append(exc, "UnboundLocalError")
            /\ UNCHANGED rolled_back
       ELSE /\ rolled_back' = TRUE
            /\ UNCHANGED exc
    /\ step' = "finally"
    /\ UNCHANGED <<csv_files, processed_df, conn, cur, errors,
                   stock_transactions>>
    /\ UNCHANGED vars

\* lines 197-201: if cur: cur.close(); if conn: conn.close().  When cur is not
\* bound, "if cur" raises UnboundLocalError and conn.close() is not reached.
Finally ==
    /\ step = "finally"
    /\ IF cur = "unbound"
       THEN /\ exc' = Append(exc, "UnboundLocalError")
            /\ UNCHANGED <<conn, cur>>
       ELSE /\ cur' = "closed"
            /\ conn' = "closed"
            /\ UNCHANGED exc
    /\ step' = IF exc' = <<>> THEN "loop" ELSE "caught"
    /\ UNCHANGED <<csv_files, processed_df, rolled_back, errors,
                   stock_transactions>>
    /\ UNCHANGED vars

\* lines 217-219: except Exception as e: logger.error(...); continue
Caught ==
    /\ step = "caught"
    /\ errors' = Append(errors, exc[Len(exc)])
    /\ exc' = <<>>
    /\ step' = "loop"
    /\ UNCHANGED <<csv_files, processed_df, conn, cur, rolled_back,
                   stock_transactions>>
    /\ UNCHANGED vars

\* line 208: csv_files is exhausted
Finish ==
    /\ step = "loop"
    /\ csv_files = 0
    /\ step' = "done"
    /\ UNCHANGED <<csv_files, processed_df, conn, cur, rolled_back, exc,
                   errors, stock_transactions>>
    /\ UNCHANGED vars

NextStocks ==
    \/ ReadCsv
    \/ PreprocessFails
    \/ Connect
    \/ ConnectFails
    \/ Cursor
    \/ CursorFails
    \/ Execute
    \/ ExecuteFails
    \/ Commit
    \/ CommitFails
    \/ Except
    \/ Finally
    \/ Caught
    \/ Finish

SpecStocks == InitStocks /\ [][NextStocks]_<<vars, loaderVars>>

\* the quarter of a fiscal year that starts in July
QuarterFromJuly(month) ==
    CASE month \in 7..9 -> 1
      [] month \in 10..12 -> 2
      [] month \in 1..3 -> 3
      [] month \in 4..6 -> 4

\* C21: determine_fiscal_periods gives every month the quarter of a fiscal
\* year that starts in July (July-September 1, October-December 2,
\* January-March 3, April-June 4; always in 1..4), and the fiscal year is the
\* calendar year for January-June and the calendar year plus one for
\* July-December.
C21_FiscalPeriods ==
    \A k \in 1..Len(processed_df) :
        LET date == ToDatetime(processed_df[k].transaction_date)
        IN  /\ processed_df[k].fiscal_quarter \in 1..4
            /\ processed_df[k].fiscal_quarter = QuarterFromJuly(date.month)
            /\ processed_df[k].fiscal_year =
                  IF date.month \in 1..6 THEN date.year ELSE date.year + 1

\* C22: when a step of load_to_postgres fails, the connect included, the
\* exception that reaches the file loop is the original database error and no
\* other error has taken its place, the transaction was rolled back if a
\* connection exists, no cursor or connection is left open, and what the file
\* loop logs is that database error.
C22_OriginalErrorReraised ==
    /\ (step = "caught" /\ exc[1] = "DatabaseError") =>
          /\ exc = <<"DatabaseError">>
          /\ conn # "unbound" => rolled_back
          /\ conn # "open"
          /\ cur # "open"
    /\ \A k \in 1..Len(errors) : errors[k] \in {"DatabaseError", "ValueError"}

====
